---- MODULE Spec2Model ----
(***************************************************************************)
(* Model of the local reliability layer of the editor:                     *)
(*   src/src/services/reliabilityService.ts (class ReliabilityService).    *)
(* The durable environment (IndexedDB object store 'backups', the          *)
(* localStorage crash flag, the interval timers of the page) is state of   *)
(* the model; every handler of the service is one action.                  *)
(***************************************************************************)
EXTENDS Integers, Sequences, FiniteSets, TLC

VARIABLES
    now,            \* Date.now(): the wall clock, in ms
    database,       \* IndexedDB database 'CodeBuddyBackups': "absent", "no stores"
                    \* (version 1 without an object store) or "backups"
    idb,            \* IndexedDB object store 'backups' (keyPath 'id'): set of BackupData
    crashFlag,      \* localStorage has the key 'codebuddy_crash_flag'
    page,           \* "closed" | "running": whether a page (session) holds a service
    recoveryState,  \* ReliabilityService.recoveryState
    producer,       \* what the page's getDataCallback returns: state with "files" or "no files"
    backupTimer,    \* ReliabilityService.backupTimer: <<>> (null) or <<handle>>
    timers,         \* the interval handles the page has armed and not cleared
    nextHandle,     \* the next handle setInterval returns
    calls,          \* createBackup invocations: call number -> its position and locals
    recovery,       \* the settlement of the last recoverFromCrash, and what it read
    hist,           \* history of the run (not program state), read only by properties
    cache,          \* PerformanceService.cache: key -> <<>> (absent) or <<item>>
    cacheHits,      \* PerformanceService.cacheHits
    cacheMisses,    \* PerformanceService.cacheMisses
    debounced,      \* the closure of debouncedAutoSave (lodash.debounce)
    throttled,      \* the closure of throttledSync (lodash.throttle)
    saves,          \* autoSave invocations in flight
    syncs,          \* syncToServer invocations in flight
    fallback,       \* localStorage keys backup_<fileId> written by handleAutoSaveError
    seen,           \* history of the performance service (not program state)
    files,          \* useFileSystem files: the nodes of the tree, each with its parent
    tabs,           \* App tabs: the open tabs in order
    activeTabId,    \* App activeTabId: NoTab ('') or the id of a tab
    armedAt,        \* the clock when the App effect last armed the backup interval
    collab,         \* CollaborationService: isConnected and its pending retry timers
    trail           \* history of the App and its hooks (not program state)

\* The reliability service and its environment, without the clock.
relVars == <<database, idb, crashFlag, page, recoveryState, producer, backupTimer,
             timers, nextHandle, calls, recovery, hist>>

\* The performance service and its environment, without the clock.
perfVars == <<cache, cacheHits, cacheMisses, debounced, throttled, saves, syncs,
              fallback, seen>>

\* The App component, its file-system hook and the collaboration service.
appVars == <<files, tabs, activeTabId, armedAt, collab, trail>>

vars == <<now, relVars, perfVars, appVars>>

-----------------------------------------------------------------------------
(* Bounds of the model *)

\* clock readings the recovery specification stamps snapshots with: 1..MaxSnaps
MaxSnaps == 3

\* sessions (page loads) in one run of the session specification
MaxSessions == 3

\* setInterval calls per session
MaxHandles == 3

\* createBackup calls in one run of the backup specification
MaxCalls == 2

\* milliseconds that pass in one run of the backup specification
MaxTicks == 1

\* setCache and getCache calls in one run of the cache specification
MaxCacheOps == 3

\* debouncedAutoSave calls in one run of the coalescing specification
MaxEdits == 2

\* throttledSync calls in one run of the coalescing specification
MaxPushes == 3

\* syncToServer calls explored.
MaxSyncs == 1

\* createFile, renameFile and deleteFile calls explored.
MaxFileOps == 2

\* connect_error events explored.
MaxErrors == 6

\* handleFileSelect and handleTabClose calls explored.
MaxAppOps == 4

-----------------------------------------------------------------------------
(* Program constants *)

maxBackups == 10

\* debounce(..., 300) and throttle(..., 100), in ms
debounceWait == 300
throttleWait == 100

\* syncToServer: const maxRetries = 3
maxRetries == 3

\* ReliabilityService.backupInterval, and the default ttl of setCache.
backupInterval == 30000
defaultTtl == 300000

\* handleConnectionError: const maxRetries = 5 (collaborationService.ts 223).
reconnectMaxRetries == 5

-----------------------------------------------------------------------------
(* Values: application state, its JSON text, and the SHA-256 digest *)

\* The application state handed to createBackup. `files` is "array" when the
\* value has an array-valued property files, "absent" when it has none;
\* stamp is the producer's timestamp field, which tells payloads apart.
GoodData(n) == [type |-> "object", files |-> "array", stamp |-> n]
NoFilesData(n) == [type |-> "object", files |-> "absent", stamp |-> n]

\* JSON.stringify(data): the text of the value.
Stringify(data) == [text |-> "json", of |-> data]

\* A stored text that was damaged on disk: no longer JSON.
Garbled(data) == [text |-> "garbled", of |-> data]

\* JSON.parse(content): <<value>>, or <<>> when it throws SyntaxError.
Parse(content) == IF content.text = "json" THEN <<content.of>> ELSE <<>>

\* generateChecksum: SHA-256 of the text as hex, taken as collision free.
generateChecksum(content) == [alg |-> "sha256", of |-> content]

\* verifyBackup: the digest of the stored content equals the stored checksum.
verifyBackup(backup) == generateChecksum(backup.content) = backup.checksum

\* validateRecoveredData: data && typeof data === 'object' && data.files &&
\* Array.isArray(data.files).
validateRecoveredData(data) == data.type = "object" /\ data.files = "array"

-----------------------------------------------------------------------------
(* The object store as a list: getAll() returns records in key order *)

Ids(db) == {b.id : b \in db}

MinId(db) == CHOOSE i \in Ids(db) : \A j \in Ids(db) : i <= j

RECURSIVE GetAll(_)
GetAll(db) ==
    IF db = {} THEN <<>>
    ELSE LET first == CHOOSE b \in db : b.id = MinId(db)
         IN <<first>> \o GetAll(db \ {first})

\* getBackups resolves with getAll()'s result.
getBackups(db) == GetAll(db)

\* Array.prototype.sort((a, b) => b.timestamp - a.timestamp): stable, newest first.
RECURSIVE InsertDesc(_, _)
InsertDesc(x, s) ==
    IF s = <<>> THEN <<x>>
    ELSE IF Head(s).timestamp >= x.timestamp
         THEN <<Head(s)>> \o InsertDesc(x, Tail(s))
         ELSE <<x>> \o s

\* The same sort with the comparator turned round: oldest first.
RECURSIVE InsertAsc(_, _)
InsertAsc(x, s) ==
    IF s = <<>> THEN <<x>>
    ELSE IF Head(s).timestamp <= x.timestamp
         THEN <<Head(s)>> \o InsertAsc(x, Tail(s))
         ELSE <<x>> \o s

RECURSIVE SortOldestFirstFrom(_, _)
SortOldestFirstFrom(s, acc) ==
    IF s = <<>> THEN acc
    ELSE SortOldestFirstFrom(Tail(s), InsertAsc(Head(s), acc))

SortOldestFirst(s) == SortOldestFirstFrom(s, <<>>)

RECURSIVE SortNewestFirstFrom(_, _)
SortNewestFirstFrom(s, acc) ==
    IF s = <<>> THEN acc
    ELSE SortNewestFirstFrom(Tail(s), InsertDesc(Head(s), acc))

SortNewestFirst(s) == SortNewestFirstFrom(s, <<>>)

-----------------------------------------------------------------------------
(* Recovery: recoverFromCrash and recoverFromBackup *)

Resolved(value) == [kind |-> "resolved", value |-> value, error |-> "none"]
Rejected(error) == [kind |-> "rejected", value |-> <<>>, error |-> error]

\* A promise that nothing is left to settle.
Pending == [kind |-> "pending", value |-> <<>>, error |-> "none"]

\* recoverFromBackup(backup): `slot` is <<backup>>, or <<>> for undefined.
\* Every throw is caught, logged and rethrown, so the promise rejects.
recoverFromBackup(slot) ==
    IF slot = <<>> THEN Rejected("TypeError")
    ELSE LET parsed == Parse(slot[1].content)
         IN IF parsed = <<>> THEN Rejected("SyntaxError")
            ELSE IF ~validateRecoveredData(parsed[1])
                 THEN Rejected("Recovered data validation failed")
                 ELSE Resolved(parsed)

\* recoverFromCrash once getBackups has resolved with `backups`. The promise
\* of recoverFromBackup is returned without await, so its rejection is the
\* rejection of recoverFromCrash and the catch block does not see it.
recoverFromCrash(backups) ==
    IF Len(backups) = 0 THEN Resolved(<<>>)
    ELSE LET sorted == SortNewestFirst(backups)
             latestBackup == sorted[1]
         IN IF ~verifyBackup(latestBackup)
            THEN recoverFromBackup(IF Len(sorted) >= 2 THEN <<sorted[2]>> ELSE <<>>)
            ELSE recoverFromBackup(<<latestBackup>>)

-----------------------------------------------------------------------------
(* State shared by the specifications *)

\* recoveryState as the field initialiser of the class sets it.
FreshRecoveryState ==
    [lastSaved |-> 0, unsavedChanges |-> FALSE, backupCount |-> 0,
     crashDetected |-> FALSE]

\* History of a run.
\*   sessions     page loads so far
\*   flagCleared  the beforeunload handler or cleanup() ran in the current
\*                (or, with the page closed, the last) session
\*   expectCrash  the session before the current one ended without either
\*   restarted    startAutoBackup ran while a timer was armed
\*   prior        snapshots the store held when the run began
\*   begun        createBackup calls begun
\*   overlapped   a createBackup began while another was in flight
\*   puts         writes of createBackup that committed
\*   settled      how the last createBackup to settle ended: "resolved",
\*                "pruning failed" (resolved, its pruning met a storage
\*                error) or "rejected"; "none" before the first
\*   ticks        timer callbacks run
\*   thrown       timer callbacks in which the producer threw
\*   markedDuring the createBackup calls in flight during which
\*                markUnsavedChanges ran
\*   uncaptured   markUnsavedChanges ran in this session after the producer
\*                call of every backup the timer callback completed
\*   cleaned      cleanup() ran in the current session
\*   startup      what initializeRecovery did in the current session, in
\*                order, each step with the durable flag as the step left it
NoHistory ==
    [sessions |-> 0, flagCleared |-> FALSE, expectCrash |-> FALSE,
     restarted |-> FALSE, prior |-> 0, begun |-> 0, overlapped |-> FALSE,
     puts |-> 0, settled |-> "none", ticks |-> 0, thrown |-> 0,
     startup |-> <<>>, markedDuring |-> {}, uncaptured |-> FALSE,
     cleaned |-> FALSE]

\* The keys the cache is used with.
Keys == {"tab_2", "tab_4"}

\* The closure of a function made by lodash debounce before its first call:
\* lastArgs and lastCallTime undefined, lastInvokeTime 0, no timer.
NeverCalled ==
    [lastArgs |-> <<>>, lastCallTime |-> <<>>, lastInvokeTime |-> 0, timer |-> <<>>]

\* History of the performance service.
\*   ops      setCache and getCache calls so far
\*   reads    getCache calls since the last cleanup()
\*   lastSet  per key, the last setCache since the last cleanup(): its
\*            value, the clock at the call and its ttl
\*   got      the last getCache: its key, what it returned, the clock at
\*            the call and its number among the calls
\*   edits    the debouncedAutoSave calls: clock and arguments of each
\*   pushes   the throttledSync calls: clock and argument of each
\*   autoSaves   the autoSave invocations: clock and arguments of each
\*   syncStarts  the syncToServer invocations: clock, argument and caller
\*   fetches  the fetch calls of the syncToServer invocations: clock and
\*            invocation of each
\*   failures the failed fetches: clock and invocation of each
\*   settled  the syncToServer invocations that returned or threw: clock,
\*            invocation and outcome
NothingSeen ==
    [ops |-> 0, reads |-> 0, lastSet |-> [k \in Keys |-> <<>>], got |-> <<>>,
     edits |-> <<>>, pushes |-> <<>>, autoSaves |-> <<>>, syncStarts |-> <<>>,
     fetches |-> <<>>, failures |-> <<>>, settled |-> <<>>]

\* activeTabId '' (no tab), and parentId null (a root node).
NoTab == 0
NoParent == 0

\* initialFiles (useFileSystem.ts 4-75): a path is the sequence of its
\* segments, <<"src", "App.tsx">> for '/src/App.tsx'; the children arrays
\* are given by the parent of each node.
initialFiles ==
    {[id |-> 1, name |-> "src", type |-> "folder", path |-> <<"src">>, parent |-> NoParent],
     [id |-> 2, name |-> "App.tsx", type |-> "file", path |-> <<"src", "App.tsx">>, parent |-> 1],
     [id |-> 3, name |-> "index.css", type |-> "file", path |-> <<"src", "index.css">>, parent |-> 1],
     [id |-> 4, name |-> "package.json", type |-> "file", path |-> <<"package.json">>, parent |-> NoParent],
     [id |-> 5, name |-> "README.md", type |-> "file", path |-> <<"README.md">>, parent |-> NoParent]}

\* CollaborationService before initializeRoom: not connected, no socket
\* ("none" for null), no retry timer pending. A retry timer is the closure
\* of one handleConnectionError call: its retryCount and the due time of its
\* setTimeout.
NotConnected == [isConnected |-> FALSE, socket |-> "none", retries |-> {}]

\* History of the App.
\*   fileOps   createFile, renameFile and deleteFile calls so far
\*   appOps    handleFileSelect and handleTabClose calls so far
\*   lastTick  the clock when the App mounted or the backup interval last
\*             fired; <<>> while the App is not mounted
\*   closedCached  the tabs closed while the cache held an entry for them
\*   errors    connect_error events of the current run of consecutive ones
\*   attempts  socket.connect() calls of the current run: the clock of each
\*             and the delay of the timer that made it
NoTrail ==
    [fileOps |-> 0, appOps |-> 0, lastTick |-> <<>>, closedCached |-> {},
     errors |-> 0, attempts |-> <<>>]

\* The App before it mounts, with the hook and the service it uses.
InitApp ==
    /\ files = initialFiles
    /\ tabs = <<>>
    /\ activeTabId = NoTab
    /\ armedAt = <<>>
    /\ collab = NotConnected
    /\ trail = NoTrail

\* PerformanceService as its field initialisers leave it (lines 19-31).
InitPerformance ==
    /\ cache = [k \in Keys |-> <<>>]
    /\ cacheHits = 0
    /\ cacheMisses = 0
    /\ debounced = NeverCalled
    /\ throttled = NeverCalled
    /\ saves = <<>>
    /\ syncs = <<>>
    /\ fallback = {}
    /\ seen = NothingSeen

\* A snapshot whose checksum is the digest of String(data), not of the
\* stored text.
SnapshotDigestOfString(id, t, version, data) ==
    [id |-> id, content |-> Stringify(data), timestamp |-> t,
     version |-> version,
     checksum |-> generateChecksum([text |-> "string", of |-> data])]

\* The snapshot createBackup builds for `data`, its id read from the clock
\* at `id` and its timestamp at t.
Snapshot(id, t, version, data) ==
    [id |-> id, content |-> Stringify(data), timestamp |-> t,
     version |-> version, checksum |-> generateChecksum(Stringify(data))]

\* indexedDB.open('CodeBuddyBackups', 1) as getBackups and deleteBackup issue
\* it, with no onupgradeneeded handler: a database that does not exist is
\* created at version 1 with no object store.
OpenedWithoutUpgrade(db) == IF db = "absent" THEN "no stores" ELSE db

\* The same open as storeBackup issues it: onupgradeneeded, which fires only
\* when the database is created, creates the object store 'backups'.
OpenedWithUpgrade(db) == IF db = "absent" THEN "backups" ELSE db

\* store.put(backup): keyPath 'id', a record with the same key is replaced.
Put(db, backup) == {b \in db : b.id # backup.id} \cup {backup}

\* store.delete(backupId): deleting an absent key succeeds.
Delete(db, backupId) == {b \in db : b.id # backupId}

-----------------------------------------------------------------------------
(* Specification SpecRecover: recovery over stores holding damaged snapshots *)

\* Stores earlier sessions can have left: at each clock reading 1..MaxSnaps
\* no snapshot, one of a state with files, or one of a state without files.
ShapesAt(t) == {GoodData(t), NoFilesData(t)}

WrittenSnapshots ==
    UNION {{Snapshot(t, t, t, d) : d \in ShapesAt(t)} : t \in 1..MaxSnaps}

RecoverStores ==
    {db \in SUBSET WrittenSnapshots : \A a, b \in db : a.id = b.id => a = b}

InitRecover ==
    /\ now = MaxSnaps + 1
    /\ database = "backups"
    /\ idb \in RecoverStores
    /\ crashFlag = TRUE
    /\ page = "running"
    /\ recoveryState = FreshRecoveryState
    /\ producer = "files"
    /\ backupTimer = <<>>
    /\ timers = {}
    /\ nextHandle = 1
    /\ calls = <<>>
    /\ recovery = <<>>
    /\ InitPerformance
    /\ InitApp
    /\ hist = NoHistory

\* A digest that is the digest of no stored text.
DamagedChecksum(backup) ==
    [alg |-> "sha256", of |-> [text |-> "damaged", of |-> backup.content.of]]

\* The environment damages one stored snapshot: its checksum field, or its
\* content (which then no longer parses).
Tamper(id, part) ==
    /\ \E b \in idb :
          /\ b.id = id
          /\ LET damaged ==
                   IF part = "checksum"
                   THEN [b EXCEPT !.checksum = DamagedChecksum(b)]
                   ELSE [b EXCEPT !.content = Garbled(b.content.of)]
             IN /\ damaged # b
                /\ idb' = (idb \ {b}) \cup {damaged}
    /\ UNCHANGED <<appVars, perfVars, database, producer, now, crashFlag, page, recoveryState, backupTimer, timers,
                   nextHandle, calls, recovery, hist>>

\* triggerRecovery() / recoverFromCrash(): the open of getBackups fails (not
\* ok) and the catch block turns the rejection into null, or it succeeds.
\* With a database that has no object store 'backups', db.transaction throws
\* NotFoundError inside the onsuccess handler: the promise of getBackups is
\* neither resolved nor rejected. Otherwise getBackups resolves with the list.
RecoverFromCrash(ok) ==
    /\ page = "running"
    /\ database' = IF ok THEN OpenedWithoutUpgrade(database) ELSE database
    /\ recovery' =
          IF ~ok
          THEN <<[settled |-> Resolved(<<>>), read |-> <<>>]>>
          ELSE IF OpenedWithoutUpgrade(database) # "backups"
               THEN <<[settled |-> Pending, read |-> <<>>]>>
               ELSE <<[settled |-> recoverFromCrash(getBackups(idb)),
                       read |-> <<getBackups(idb)>>]>>
    /\ UNCHANGED <<appVars, perfVars, producer, now, idb, crashFlag, page, recoveryState, backupTimer, timers,
                   nextHandle, calls, hist>>

NextRecover ==
    \/ \E id \in 1..MaxSnaps, part \in {"checksum", "content"} : Tamper(id, part)
    \/ \E ok \in BOOLEAN : RecoverFromCrash(ok)

SpecRecover == InitRecover /\ [][NextRecover]_vars

-----------------------------------------------------------------------------
(* Claims about recovery *)

\* What the last recovery read, newest first (<<>> when getBackups rejected).
RecoveryRead == IF recovery # <<>> /\ recovery[1].read # <<>>
                THEN SortNewestFirst(recovery[1].read[1]) ELSE <<>>

RecoverySettled == recovery[1].settled

\* The snapshots of a newest-first list that pass the checksum, in that order.
Verifying(sorted) == SelectSeq(sorted, verifyBackup)

\* A snapshot whose content decodes to a structurally valid payload.
Usable(b) == Parse(b.content) # <<>> /\ validateRecoveredData(Parse(b.content)[1])

\* C1: recovery returns the payload of the newest snapshot whose checksum
\* verifies (taken where that snapshot's payload is structurally valid).
C1_NewestVerifyingReturned ==
    (/\ recovery # <<>>
     /\ Verifying(RecoveryRead) # <<>>
     /\ Usable(Verifying(RecoveryRead)[1]))
    => RecoverySettled = Resolved(Parse(Verifying(RecoveryRead)[1].content))

\* C2: when every stored snapshot fails the checksum, recovery resolves with
\* null: no payload, no throw, no rejection.
C2_AllCorruptIsUnavailable ==
    (/\ recovery # <<>>
     /\ RecoveryRead # <<>>
     /\ Verifying(RecoveryRead) = <<>>)
    => RecoverySettled = Resolved(<<>>)

\* The snapshots that pass the checksum and the structural validation.
Recoverable(sorted) == SelectSeq(sorted, LAMBDA b : verifyBackup(b) /\ Usable(b))

\* C3: when the newest verifying snapshot fails structural validation,
\* recovery goes on to the next older snapshot: it ends with the payload of
\* the newest snapshot that verifies and validates, or with null when there
\* is none, and does not fail.
C3_ValidationFailureFallsBack ==
    (/\ recovery # <<>>
     /\ Verifying(RecoveryRead) # <<>>
     /\ ~Usable(Verifying(RecoveryRead)[1]))
    => RecoverySettled =
          IF Recoverable(RecoveryRead) # <<>>
          THEN Resolved(Parse(Recoverable(RecoveryRead)[1].content))
          ELSE Resolved(<<>>)

-----------------------------------------------------------------------------
(* Specification SpecSession: the life of a page, its crash flag and timer *)

InitSession ==
    /\ now = 1
    /\ database = "absent"
    /\ idb = {}
    /\ crashFlag = FALSE
    /\ page = "closed"
    /\ recoveryState = FreshRecoveryState
    /\ producer = "files"
    /\ backupTimer = <<>>
    /\ timers = {}
    /\ nextHandle = 1
    /\ calls = <<>>
    /\ recovery = <<>>
    /\ InitPerformance
    /\ InitApp
    /\ hist = NoHistory

\* crashDetected when the flag is set before it is read.
CrashDetectedAtStartupSetFirst(flag) == TRUE

\* initializeRecovery reads the flag, the read decides crashDetected, and
\* only then sets the flag: crashDetected given the flag found at startup.
CrashDetectedAtStartup(flag) == flag

\* The steps of initializeRecovery (lines 34-50) when it finds `flag`, in
\* statement order, had the flag been written first.
StartupStepsSetFirst(flag) ==
    <<[step |-> "setItem", flag |-> TRUE],
      [step |-> "getItem", flag |-> TRUE],
      [step |-> "recoverFromCrash", flag |-> TRUE],
      [step |-> "addEventListener", flag |-> TRUE]>>

\* The steps of initializeRecovery (lines 34-50) when it finds `flag`, in
\* statement order: the read, then with a flag the call of recoverFromCrash
\* (which runs up to the open request of getBackups), then the write.
StartupSteps(flag) ==
    <<[step |-> "getItem", flag |-> flag]>>
    \o (IF flag THEN <<[step |-> "recoverFromCrash", flag |-> flag]>> ELSE <<>>)
    \o <<[step |-> "setItem", flag |-> TRUE],
         [step |-> "addEventListener", flag |-> TRUE]>>

\* Page load: the module constructs the service (constructor, lines 27-31).
\* recoverFromCrash, started when the flag was present, opens the database
\* (getBackups); its promise is dropped.
Construct ==
    /\ page = "closed"
    /\ hist.sessions < MaxSessions
    /\ page' = "running"
    /\ recoveryState' =
          [FreshRecoveryState EXCEPT !.crashDetected = CrashDetectedAtStartup(crashFlag)]
    /\ crashFlag' = TRUE
    /\ backupTimer' = <<>>
    /\ timers' = {}
    /\ nextHandle' = 1
    /\ hist' = [hist EXCEPT !.sessions = @ + 1,
                            !.expectCrash = (hist.sessions >= 1 /\ ~hist.flagCleared),
                            !.flagCleared = FALSE,
                            !.restarted = FALSE,
                            !.startup = StartupSteps(crashFlag),
                            !.markedDuring = {},
                            !.uncaptured = FALSE,
                            !.cleaned = FALSE]
    /\ database' = IF crashFlag THEN OpenedWithoutUpgrade(database) ELSE database
    /\ UNCHANGED <<appVars, perfVars, producer, now, idb, calls, recovery>>

\* The page goes away: its timers and its service instance with it.
PageGone ==
    /\ page' = "closed"
    /\ timers' = {}
    /\ backupTimer' = <<>>
    /\ calls' = <<>>

\* beforeunload: the listener of initializeRecovery removes the flag; the
\* listener of setupBeforeUnloadHandler asks for the leave prompt when there
\* are unsaved changes, and only then can the user stay on the page.
BeforeUnload(leave) ==
    /\ page = "running"
    /\ leave \/ recoveryState.unsavedChanges
    /\ crashFlag' = FALSE
    /\ hist' = [hist EXCEPT !.flagCleared = TRUE]
    /\ IF leave THEN PageGone ELSE UNCHANGED <<page, timers, backupTimer, calls>>
    /\ UNCHANGED <<appVars, perfVars, database, producer, now, idb, recoveryState, nextHandle, recovery>>

\* The tab or the browser dies: no handler runs.
Crash ==
    /\ page = "running"
    /\ PageGone
    /\ UNCHANGED <<appVars, perfVars, database, producer, now, idb, crashFlag, recoveryState, nextHandle, recovery, hist>>

\* clearInterval(backupTimer) when backupTimer is set: the timers left armed.
TimersAfterStop == timers \ {backupTimer[i] : i \in DOMAIN backupTimer}

\* stopAutoBackup()
StopAutoBackup ==
    /\ page = "running"
    /\ timers' = TimersAfterStop
    /\ backupTimer' = <<>>
    /\ UNCHANGED <<appVars, perfVars, database, producer, now, idb, crashFlag, page, recoveryState, nextHandle, calls,
                   recovery, hist>>

\* The timers left armed when setInterval is reached without the stop.
TimersBeforeArmNoStop == timers

\* The timers left armed when startAutoBackup reaches setInterval: it has
\* called stopAutoBackup().
TimersBeforeArm == TimersAfterStop

\* startAutoBackup(getDataCallback): stopAutoBackup(), then setInterval.
StartAutoBackup ==
    /\ page = "running"
    /\ nextHandle <= MaxHandles
    /\ timers' = TimersBeforeArm \cup {nextHandle}
    /\ backupTimer' = <<nextHandle>>
    /\ nextHandle' = nextHandle + 1
    /\ hist' = [hist EXCEPT !.restarted = @ \/ timers # {}]
    /\ UNCHANGED <<appVars, perfVars, database, producer, now, idb, crashFlag, page, recoveryState, calls, recovery>>

\* markUnsavedChanges()
MarkUnsavedChanges ==
    /\ page = "running"
    /\ recoveryState' = [recoveryState EXCEPT !.unsavedChanges = TRUE]
    /\ hist' = [hist EXCEPT !.markedDuring = DOMAIN calls, !.uncaptured = TRUE]
    /\ UNCHANGED <<appVars, perfVars, database, producer, now, idb, crashFlag, page, backupTimer, timers, nextHandle,
                   calls, recovery>>

\* The flag after cleanup(): removed.
FlagAfterCleanup == FALSE

\* cleanup(): stopAutoBackup(), then the flag and the saved state are removed.
Cleanup ==
    /\ page = "running"
    /\ timers' = TimersAfterStop
    /\ backupTimer' = <<>>
    /\ crashFlag' = FlagAfterCleanup
    /\ hist' = [hist EXCEPT !.flagCleared = TRUE, !.cleaned = TRUE]
    /\ UNCHANGED <<appVars, perfVars, database, producer, now, idb, page, recoveryState, nextHandle, calls, recovery>>

NextSession ==
    \/ Construct
    \/ \E leave \in BOOLEAN : BeforeUnload(leave)
    \/ Crash
    \/ StartAutoBackup
    \/ StopAutoBackup
    \/ MarkUnsavedChanges
    \/ Cleanup

SpecSession == InitSession /\ [][NextSession]_vars

-----------------------------------------------------------------------------
(* Claims about the crash flag and the timer *)

\* C7: at startup crashDetected is true exactly when there was a session
\* before and neither the beforeunload handler nor cleanup() ran in it.
C7_CrashFlagRoundTrip ==
    page = "running" => recoveryState.crashDetected = hist.expectCrash

\* C7 witness: a session that follows one that crashed, and reports it.
C7_Witness ==
    /\ page = "running"
    /\ hist.sessions >= 2
    /\ hist.expectCrash
    /\ recoveryState.crashDetected

\* C10: the armed timers are exactly the one backupTimer names, so at most
\* one is armed, and none after stopAutoBackup (backupTimer null).
C10_AtMostOneTimer ==
    /\ Cardinality(timers) <= 1
    /\ timers = {backupTimer[i] : i \in DOMAIN backupTimer}

\* C10 witness: startAutoBackup has run while a timer was armed, and one
\* timer is armed.
C10_Witness ==
    /\ hist.restarted
    /\ timers # {}

-----------------------------------------------------------------------------
(* Specification SpecBackup: createBackup, its write and its pruning *)

\* The store as one earlier session left it after k backups.
PriorStore(k) == {Snapshot(t, t, t, GoodData(t)) : t \in 1..k}

PriorCounts == {0, maxBackups - 1, maxBackups}

\* The clock when the run begins: later than every stored timestamp.
FirstNow == maxBackups + 1

InitBackup ==
    /\ now = FirstNow
    /\ \E k \in PriorCounts :
          /\ idb = PriorStore(k)
          /\ database = (IF k = 0 THEN "absent" ELSE "backups")
          /\ hist = [NoHistory EXCEPT !.sessions = MaxSessions - 1, !.prior = k]
    /\ crashFlag = TRUE
    /\ page = "running"
    /\ recoveryState = FreshRecoveryState
    /\ producer \in {"files", "no files"}
    /\ backupTimer = <<>>
    /\ timers = {}
    /\ nextHandle = 1
    /\ calls = <<>>
    /\ recovery = <<>>
    /\ InitPerformance
    /\ InitApp

\* The callback stamping lastSaved whether createBackup resolved or not.
AfterCreateBackupAlways(rs, how, t) ==
    [rs EXCEPT !.lastSaved = t, !.unsavedChanges = FALSE]

\* The timer callback once createBackup has settled (lines 60-64): after a
\* resolve it stamps lastSaved with the clock and clears unsavedChanges;
\* after a rejection the catch block logs and nothing is assigned.
AfterCreateBackup(rs, how, t) ==
    IF how = "rejected" THEN rs
    ELSE [rs EXCEPT !.lastSaved = t, !.unsavedChanges = FALSE]

\* createBackup settles: the call is over, and the caller goes on; a timer
\* callback with the lines after its await.
Settle(c, how) ==
    /\ calls' = [d \in DOMAIN calls \ {c} |-> calls[d]]
    /\ recoveryState' = IF calls[c].caller = "timer"
                        THEN AfterCreateBackup(recoveryState, how, now)
                        ELSE recoveryState
    /\ hist' = [hist EXCEPT !.settled = how,
                            !.markedDuring = @ \ {c},
                            !.uncaptured =
                                IF calls[c].caller = "timer" /\ how # "rejected"
                                THEN @ /\ c \in hist.markedDuring
                                ELSE @]

\* createBackup(data) up to its first await (lines 78-84). The clock is
\* read twice: `wait` ms have passed since it was last read, and `tick` ms
\* pass between the reading for the id and the one for the timestamp; the
\* version is this session's count of backups plus one. overlap (history,
\* not a local of the code) tells whether another createBackup was in flight
\* at any time during the call; caller is "timer" for a call made by the
\* timer callback of startAutoBackup, "direct" for any other.
CreateBackupBy(caller, data, wait, tick) ==
    /\ page = "running"
    /\ hist.begun < MaxCalls
    /\ now + wait + tick <= FirstNow + MaxTicks
    /\ now' = now + wait + tick
    /\ calls' = [c \in DOMAIN calls |-> [calls[c] EXCEPT !.overlap = TRUE]]
                 @@ ((hist.begun + 1) :>
                       [pc |-> "storing", caller |-> caller,
                        backup |-> Snapshot(now + wait, now + wait + tick,
                                            recoveryState.backupCount + 1, data),
                        doomed |-> <<>>, next |-> 1,
                        overlap |-> DOMAIN calls # {}])
    /\ hist' = [hist EXCEPT !.begun = @ + 1,
                            !.overlapped = @ \/ DOMAIN calls # {},
                            !.ticks = IF caller = "timer" THEN @ + 1 ELSE @]
    /\ UNCHANGED <<appVars, perfVars, database, producer, idb, crashFlag, page, recoveryState, backupTimer, timers,
                   nextHandle, recovery>>

\* createBackup(data) called on the service.
CreateBackupBegin(data, wait, tick) == CreateBackupBy("direct", data, wait, tick)

\* storeBackup: the transaction commits the put and completes; createBackup
\* goes on (lines 90-94): backupCount++, and cleanOldBackups asks for the list.
StoreBackupDone(c) ==
    /\ c \in DOMAIN calls
    /\ calls[c].pc = "storing"
    /\ OpenedWithUpgrade(database) = "backups"
    /\ database' = "backups"
    /\ idb' = Put(idb, calls[c].backup)
    /\ recoveryState' = [recoveryState EXCEPT !.backupCount = @ + 1]
    /\ calls' = [calls EXCEPT ![c].pc = "listing"]
    /\ hist' = [hist EXCEPT !.puts = @ + 1]
    /\ UNCHANGED <<appVars, perfVars, producer, now, crashFlag, page, backupTimer, timers, nextHandle, recovery>>

\* storeBackup rejects (request.onerror, transaction.onerror): createBackup
\* logs and rethrows.
StoreBackupFailed(c) ==
    /\ c \in DOMAIN calls
    /\ calls[c].pc = "storing"
    /\ Settle(c, "rejected")
    /\ UNCHANGED <<appVars, perfVars, database, producer, now, idb, crashFlag, page, backupTimer, timers,
                   nextHandle, recovery>>

\* The slice taken one place too far.
BackupsToDeleteOffByOne(backups) ==
    SubSeq(SortNewestFirst(backups), maxBackups + 2, Len(backups))

\* backups.sort(newest first).slice(maxBackups): the snapshots to delete.
BackupsToDelete(backups) ==
    SubSeq(SortNewestFirst(backups), maxBackups + 1, Len(backups))

\* cleanOldBackups once getBackups has resolved: nothing to do at or under
\* maxBackups, or with nothing to loop over (createBackup resolves), else
\* the first deleteBackup is asked.
CleanOldBackupsListed(c) ==
    /\ c \in DOMAIN calls
    /\ calls[c].pc = "listing"
    /\ LET backups == getBackups(idb)
       IN IF Len(backups) <= maxBackups \/ BackupsToDelete(backups) = <<>>
          THEN Settle(c, "resolved")
          ELSE /\ calls' = [calls EXCEPT ![c].pc = "deleting",
                                         ![c].doomed = BackupsToDelete(backups)]
               /\ UNCHANGED <<recoveryState, hist>>
    /\ UNCHANGED <<appVars, perfVars, database, producer, now, idb, crashFlag, page, backupTimer, timers,
                   nextHandle, recovery>>

\* getBackups rejects: cleanOldBackups catches and logs, createBackup resolves.
CleanOldBackupsListFailed(c) ==
    /\ c \in DOMAIN calls
    /\ calls[c].pc = "listing"
    /\ Settle(c, "pruning failed")
    /\ UNCHANGED <<appVars, perfVars, database, producer, now, idb, crashFlag, page, backupTimer, timers,
                   nextHandle, recovery>>

\* deleteBackup resolves: the snapshot is gone; the loop (doomed is
\* backupsToDelete, next the position of the loop) asks for the next
\* deletion, or cleanOldBackups returns and createBackup resolves.
DeleteBackupDone(c) ==
    /\ c \in DOMAIN calls
    /\ calls[c].pc = "deleting"
    /\ idb' = Delete(idb, calls[c].doomed[calls[c].next].id)
    /\ IF calls[c].next = Len(calls[c].doomed)
       THEN Settle(c, "resolved")
       ELSE /\ calls' = [calls EXCEPT ![c].next = @ + 1]
            /\ UNCHANGED <<recoveryState, hist>>
    /\ UNCHANGED <<appVars, perfVars, database, producer, now, crashFlag, page, backupTimer, timers,
                   nextHandle, recovery>>

\* deleteBackup rejects (deleteRequest.onerror): the loop ends in the catch
\* of cleanOldBackups, createBackup resolves.
DeleteBackupFailed(c) ==
    /\ c \in DOMAIN calls
    /\ calls[c].pc = "deleting"
    /\ Settle(c, "pruning failed")
    /\ UNCHANGED <<appVars, perfVars, database, producer, now, idb, crashFlag, page, backupTimer, timers,
                   nextHandle, recovery>>

\* What the producer hands to createBackup at clock reading t.
ProducedAt(t) == IF producer = "files" THEN GoodData(t) ELSE NoFilesData(t)

NextBackup ==
    \/ \E wait \in 0..MaxTicks, tick \in {0, 1} :
          CreateBackupBegin(ProducedAt(now + wait), wait, tick)
    \/ \E c \in 1..MaxCalls : StoreBackupDone(c)
    \/ \E c \in 1..MaxCalls : StoreBackupFailed(c)
    \/ \E c \in 1..MaxCalls : CleanOldBackupsListed(c)
    \/ \E c \in 1..MaxCalls : CleanOldBackupsListFailed(c)
    \/ \E c \in 1..MaxCalls : DeleteBackupDone(c)
    \/ \E c \in 1..MaxCalls : DeleteBackupFailed(c)
    \/ Crash
    \/ Construct

SpecBackup == InitBackup /\ [][NextBackup]_vars

-----------------------------------------------------------------------------
(* Claims about createBackup and pruning *)

\* In this step the write of call c commits.
Written(c) ==
    /\ calls[c].pc = "storing"
    /\ c \in DOMAIN calls'
    /\ calls'[c].pc = "listing"

\* In this step call c resolves (its page still there).
Resolves(c) ==
    /\ calls[c].pc # "storing"
    /\ c \notin DOMAIN calls'
    /\ page' = "running"

\* C4: the k-th successful createBackup against a store stores version k,
\* and no two stored snapshots carry the same version. Stated for a store
\* that began empty and for calls that do not overlap.
C4_VersionsCountCreates ==
    [][\A c \in DOMAIN calls :
          (hist.prior = 0 /\ ~hist.overlapped /\ Written(c))
          => /\ calls[c].backup.version = hist.puts + 1
             /\ \A a, b \in idb' : a.version = b.version => a = b]_vars

\* The stored snapshot created last: ids are the clock reading at creation.
NewestCreated(db) == CHOOSE b \in db : \A o \in db : o.id <= b.id

\* C5: a step that deletes from the store (pruning) leaves the most recently
\* created snapshot in it.
C5_PruningKeepsNewest ==
    [][(idb # {} /\ Ids(idb') # Ids(idb) /\ Ids(idb') \subseteq Ids(idb))
       => NewestCreated(idb) \in idb']_vars

\* C5 witness: the write of a createBackup was pruned after (the oldest
\* snapshot of a full store is gone) and the new snapshot is in the store.
C5_Witness ==
    /\ hist.prior = maxBackups
    /\ hist.puts = 1
    /\ 1 \notin Ids(idb)
    /\ NewestCreated(idb).id >= FirstNow

\* Every snapshot left in the store is at least as new as every snapshot the
\* pruning of call c deleted.
KeptAreNewest(c) ==
    \A kept \in idb' : \A i \in DOMAIN calls[c].doomed :
        kept.timestamp >= calls[c].doomed[i].timestamp

\* Pruning that reads at most maxBackups snapshots deletes nothing.
NothingPrunedUnderLimit ==
    \A c \in DOMAIN calls :
        (/\ calls[c].pc = "listing"
         /\ Cardinality(idb) <= maxBackups
         /\ (c \in DOMAIN calls' => calls'[c].pc # "listing"))
        => (idb' = idb /\ c \notin DOMAIN calls')

C8_WrittenSnapshotsVerify ==
    /\ \A b \in idb : verifyBackup(b)
    /\ \A c \in DOMAIN calls : verifyBackup(calls[c].backup)

\* C8 witness: this run wrote a snapshot of a payload without files, and it
\* is in the store.
C8_Witness ==
    \E b \in idb : b.id >= FirstNow /\ b.content = Stringify(NoFilesData(b.id))

\* C9: a successful createBackup adds a snapshot to the store and replaces
\* none that was there. Stated for calls that do not overlap.
C9_CreateAddsNewSnapshot ==
    [][\A c \in DOMAIN calls :
          (~hist.overlapped /\ Written(c))
          => (idb \subseteq idb' /\ idb' # idb)]_vars

-----------------------------------------------------------------------------
(* Specification SpecTick: the timer of startAutoBackup and its callback *)

\* A store that holds maxBackups snapshots, so that every write is pruned
\* after; startAutoBackup has armed the timer.
InitTick ==
    /\ now = FirstNow
    /\ database = "backups"
    /\ idb = PriorStore(maxBackups)
    /\ hist = [NoHistory EXCEPT !.sessions = 1, !.prior = maxBackups]
    /\ crashFlag = TRUE
    /\ page = "running"
    /\ recoveryState = FreshRecoveryState
    /\ producer = "files"
    /\ backupTimer = <<1>>
    /\ timers = {1}
    /\ nextHandle = 2
    /\ calls = <<>>
    /\ recovery = <<>>
    /\ InitPerformance
    /\ InitApp

\* The callback hands a value of its own to createBackup, not the
\* producer's result.
TimerCallbackDataStale(t) == GoodData(0)

\* const data = getDataCallback(): what the callback hands to createBackup.
TimerCallbackData(t) == ProducedAt(t)

\* The callback of setInterval (lines 56-65) up to its await: the producer
\* throws and the catch block logs (the clock is not read), or createBackup
\* is called with its result `wait` ms after the clock was last read. The
\* interval stays armed.
TimerTick(h, throws, wait) ==
    /\ page = "running"
    /\ h \in timers
    /\ hist.ticks < MaxCalls
    /\ IF throws
       THEN /\ wait = 0
            /\ hist' = [hist EXCEPT !.ticks = @ + 1, !.thrown = @ + 1]
            /\ UNCHANGED <<appVars, perfVars, database, producer, now, idb, crashFlag, page, recoveryState,
                           backupTimer, timers, nextHandle, calls, recovery>>
       ELSE CreateBackupBy("timer", TimerCallbackData(now + wait), wait, 0)

NextTick ==
    \/ StopAutoBackup
    \/ MarkUnsavedChanges
    \/ \E h \in 1..MaxHandles, throws \in BOOLEAN, wait \in 0..MaxTicks :
          TimerTick(h, throws, wait)
    \/ \E c \in 1..MaxCalls : StoreBackupDone(c)
    \/ \E c \in 1..MaxCalls : StoreBackupFailed(c)
    \/ \E c \in 1..MaxCalls : CleanOldBackupsListed(c)
    \/ \E c \in 1..MaxCalls : CleanOldBackupsListFailed(c)
    \/ \E c \in 1..MaxCalls : DeleteBackupDone(c)
    \/ \E c \in 1..MaxCalls : DeleteBackupFailed(c)

SpecTick == InitTick /\ [][NextTick]_vars

-----------------------------------------------------------------------------
(* Claims about the timer callback *)

\* In this step the createBackup that timer callback c awaits rejects.
TimerCallRejects(c) ==
    /\ calls[c].caller = "timer"
    /\ c \notin DOMAIN calls'
    /\ hist'.settled = "rejected"

\* In this step the createBackup that timer callback c awaits resolves.
TimerCallResolves(c) ==
    /\ calls[c].caller = "timer"
    /\ c \notin DOMAIN calls'
    /\ hist'.settled # "rejected"

\* C11: a timer callback whose attempt fails (the producer throws, or
\* createBackup rejects) leaves the armed timers, backupTimer, lastSaved and
\* unsavedChanges as they were, so the interval fires again.
C11_FailedTickKeepsTimer ==
    [][(\/ hist'.thrown # hist.thrown
        \/ \E c \in DOMAIN calls : TimerCallRejects(c))
       => /\ timers' = timers
          /\ backupTimer' = backupTimer
          /\ recoveryState'.lastSaved = recoveryState.lastSaved
          /\ recoveryState'.unsavedChanges = recoveryState.unsavedChanges]_vars

\* C11 witness: the createBackup of one callback rejected while there were
\* unsaved changes, the timer is still armed, and a later callback has begun
\* another backup.
C11_Witness ==
    /\ hist.settled = "rejected"
    /\ ~hist.overlapped
    /\ recoveryState.unsavedChanges
    /\ timers # {}
    /\ \E c \in DOMAIN calls : calls[c].caller = "timer"

\* C12: a timer callback whose producer returns calls createBackup with the
\* producer's result; when that createBackup resolves, lastSaved is the
\* clock, unsavedChanges is false, and the call has been through
\* cleanOldBackups after its write.
C12_TickBacksUpAndStamps ==
    [][/\ (hist'.ticks # hist.ticks /\ hist'.thrown = hist.thrown)
          => /\ hist'.begun \in DOMAIN calls' \ DOMAIN calls
             /\ calls'[hist'.begun].pc = "storing"
             /\ calls'[hist'.begun].backup.content = Stringify(ProducedAt(now'))
       /\ \A c \in DOMAIN calls :
             TimerCallResolves(c)
             => /\ recoveryState'.lastSaved = now'
                /\ ~recoveryState'.unsavedChanges
                /\ calls[c].pc \in {"listing", "deleting"}]_vars

\* C12 witness: changes were marked unsaved, then the backup of a callback
\* was written, pruned after (the oldest snapshot is gone) and resolved.
C12_Witness ==
    /\ hist.settled = "resolved"
    /\ hist.puts >= 1
    /\ 1 \notin Ids(idb)
    /\ recoveryState.lastSaved >= FirstNow
    /\ ~recoveryState.unsavedChanges

-----------------------------------------------------------------------------
(* Specification SpecInstall: a database that does not exist yet, and the
   storage failures that no handler of the service listens for *)

\* A brand-new install (no database), or a full store left by an earlier
\* session.
InitInstall ==
    /\ now = FirstNow
    /\ \E k \in {0, maxBackups} :
          /\ idb = PriorStore(k)
          /\ database = (IF k = 0 THEN "absent" ELSE "backups")
          /\ hist = [NoHistory EXCEPT !.sessions = 1, !.prior = k]
    /\ crashFlag = TRUE
    /\ page = "running"
    /\ recoveryState = FreshRecoveryState
    /\ producer = "files"
    /\ backupTimer = <<>>
    /\ timers = {}
    /\ nextHandle = 1
    /\ calls = <<>>
    /\ recovery = <<>>
    /\ InitPerformance
    /\ InitApp

\* The promise createBackup awaits is never settled: the call stays where
\* it is for good.
Hang(c) ==
    /\ calls' = [calls EXCEPT ![c].pc = "hung"]
    /\ UNCHANGED <<appVars, perfVars, producer, now, idb, crashFlag, page, recoveryState, backupTimer,
                   timers, nextHandle, recovery, hist>>

\* storeBackup on a database without the object store 'backups' (lines
\* 110-113): db.transaction(['backups'], ...) throws NotFoundError inside
\* the onsuccess handler, outside the promise executor, so neither resolve
\* nor reject is called.
StoreBackupThrew(c) ==
    /\ c \in DOMAIN calls
    /\ calls[c].pc = "storing"
    /\ OpenedWithUpgrade(database) = "no stores"
    /\ UNCHANGED database
    /\ Hang(c)

\* storeBackup when the commit of the transaction fails (quota, I/O): the
\* put is rolled back and the transaction gets an abort event, for which no
\* handler is set (only oncomplete and onerror, lines 117-118).
StoreBackupAborted(c) ==
    /\ c \in DOMAIN calls
    /\ calls[c].pc = "storing"
    /\ OpenedWithUpgrade(database) = "backups"
    /\ database' = "backups"
    /\ Hang(c)

\* deleteBackup when its open request fails: the request has no onerror
\* handler (lines 223-225), so the promise is never settled.
DeleteBackupOpenFailed(c) ==
    /\ c \in DOMAIN calls
    /\ calls[c].pc = "deleting"
    /\ UNCHANGED database
    /\ Hang(c)

\* One request of createBackup call c is answered, in any of the ways the
\* storage layer can answer it.
Answered(c) ==
    \/ StoreBackupDone(c)
    \/ StoreBackupFailed(c)
    \/ StoreBackupThrew(c)
    \/ StoreBackupAborted(c)
    \/ CleanOldBackupsListFailed(c)
    \/ CleanOldBackupsListed(c)
    \/ DeleteBackupDone(c)
    \/ DeleteBackupFailed(c)
    \/ DeleteBackupOpenFailed(c)

NextInstall ==
    \/ \E ok \in BOOLEAN : RecoverFromCrash(ok)
    \/ \E wait \in 0..MaxTicks : CreateBackupBegin(ProducedAt(now + wait), wait, 0)
    \/ \E c \in 1..MaxCalls : Answered(c)

SpecInstall == InitInstall /\ [][NextInstall]_vars

\* The storage layer answers every request: no createBackup waits on a
\* request of its own that is never answered.
SpecInstallLive ==
    SpecInstall /\ \A c \in 1..MaxCalls : WF_vars(Answered(c))

-----------------------------------------------------------------------------
(* Claims about storage failures and the first run *)

\* In this step the write of call c fails: the call leaves storeBackup
\* without the snapshot having been committed.
WriteFails(c) ==
    /\ calls[c].pc = "storing"
    /\ (c \notin DOMAIN calls' \/ calls'[c].pc = "hung")

\* C13: when the write of a createBackup fails, the call rejects, the store
\* holds what it held, and backupCount is what it was.
C13_WriteFailureRejects ==
    [][\A c \in DOMAIN calls :
          WriteFails(c)
          => /\ c \notin DOMAIN calls'
             /\ hist'.settled = "rejected"
             /\ idb' = idb
             /\ recoveryState'.backupCount = recoveryState.backupCount]_vars

\* C14: every createBackup settles, whatever the storage layer answers to
\* its open, write, listing and deletions.
C14_EveryCallSettles ==
    \A c \in 1..MaxCalls : [](c \in DOMAIN calls => <>(c \notin DOMAIN calls))

\* C15: recovery run against a store that has never held a snapshot resolves
\* with null, and leaves a database that createBackup can write to.
C15_EmptyStoreRecoveryIsNull ==
    (recovery # <<>> /\ hist.prior = 0 /\ hist.puts = 0)
    => (RecoverySettled = Resolved(<<>>) /\ database # "no stores")

-----------------------------------------------------------------------------
(* Specification SpecCache: the TTL cache of PerformanceService *)

Values == {"v1", "v2"}

\* The ttl arguments setCache is called with, and the ms that pass between
\* two calls.
Ttls == {0, 1, 2}
Gaps == {0, 1, 2}

\* The reliability service, constructed on a new install and left alone.
ReliabilityIdle ==
    /\ database = "absent"
    /\ idb = {}
    /\ crashFlag = TRUE
    /\ page = "running"
    /\ recoveryState = FreshRecoveryState
    /\ producer = "files"
    /\ backupTimer = <<>>
    /\ timers = {}
    /\ nextHandle = 1
    /\ calls = <<>>
    /\ recovery = <<>>
    /\ hist = [NoHistory EXCEPT !.sessions = 1]

InitCache ==
    /\ now = 1
    /\ ReliabilityIdle
    /\ InitPerformance
    /\ InitApp

\* setCache(key, value, ttl), `gap` ms after the last call (lines 58-63).
SetCache(key, value, ttl, gap) ==
    /\ seen.ops < MaxCacheOps
    /\ now' = now + gap
    /\ cache' = [cache EXCEPT ![key] = <<[value |-> value, expires |-> now' + ttl]>>]
    /\ seen' = [seen EXCEPT !.ops = @ + 1,
                            !.lastSet[key] = <<[value |-> value, at |-> now', ttl |-> ttl]>>]
    /\ UNCHANGED <<appVars, relVars, cacheHits, cacheMisses, debounced, throttled, saves,
                   syncs, fallback>>

\* An item counted as expired already at its expiry time.
ExpiredAtExpiry(item, t) == t >= item.expires

\* Date.now() > item.expires (line 72).
Expired(item, t) == t > item.expires

\* A read miss counted only when the key is absent.
MissesAfterAbsentOnly(found, expired) ==
    IF ~found THEN cacheMisses + 1 ELSE cacheMisses

\* cacheMisses after a getCache (lines 68, 74).
MissesAfter(found, expired) ==
    IF ~found \/ expired THEN cacheMisses + 1 ELSE cacheMisses

\* cacheHits after a getCache (line 78).
HitsAfter(found, expired) ==
    IF found /\ ~expired THEN cacheHits + 1 ELSE cacheHits

\* getCache(key), `gap` ms after the last call (lines 65-80): null (<<>>) for
\* an absent key and for an expired one, which is deleted; else the value.
GetCache(key, gap) ==
    /\ seen.ops < MaxCacheOps
    /\ now' = now + gap
    /\ LET found == cache[key] # <<>>
           expired == found /\ Expired(cache[key][1], now')
           result == IF found /\ ~expired THEN <<cache[key][1].value>> ELSE <<>>
       IN /\ cache' = IF expired THEN [cache EXCEPT ![key] = <<>>] ELSE cache
          /\ cacheHits' = HitsAfter(found, expired)
          /\ cacheMisses' = MissesAfter(found, expired)
          /\ seen' = [seen EXCEPT !.ops = @ + 1, !.reads = @ + 1,
                                  !.got = <<[key |-> key, result |-> result,
                                             at |-> now', n |-> seen.ops + 1]>>]
    /\ UNCHANGED <<appVars, relVars, debounced, throttled, saves, syncs, fallback>>

\* getCacheHitRate() (lines 82-85) as the exact fraction num / den.
getCacheHitRate ==
    LET total == cacheHits + cacheMisses
    IN IF total > 0 THEN [num |-> cacheHits * 100, den |-> total]
       ELSE [num |-> 0, den |-> 1]

\* cleanup() of the performance service (lines 208-212).
CleanupCache ==
    /\ cache' = [k \in Keys |-> <<>>]
    /\ cacheHits' = 0
    /\ cacheMisses' = 0
    /\ seen' = [seen EXCEPT !.reads = 0, !.lastSet = [k \in Keys |-> <<>>]]
    /\ UNCHANGED <<appVars, now, relVars, debounced, throttled, saves, syncs, fallback>>

NextCache ==
    \/ \E key \in Keys, value \in Values, ttl \in Ttls, gap \in Gaps :
          SetCache(key, value, ttl, gap)
    \/ \E key \in Keys, gap \in Gaps : GetCache(key, gap)
    \/ CleanupCache

SpecCache == InitCache /\ [][NextCache]_vars

-----------------------------------------------------------------------------
(* Claims about the cache *)

\* C16: a getCache of a key that was set (and not cleaned up since) returns
\* the value of the last setCache when the clock is at most that call's
\* clock plus its ttl; later it returns null and the key is absent after.
C16_TtlLookup ==
    (/\ seen.got # <<>>
     /\ seen.got[1].n = seen.ops
     /\ seen.lastSet[seen.got[1].key] # <<>>)
    => LET g == seen.got[1]
           set == seen.lastSet[g.key][1]
       IN IF g.at <= set.at + set.ttl
          THEN g.result = <<set.value>>
          ELSE g.result = <<>> /\ cache[g.key] = <<>>

\* C16 witness: a key was read and hit, and a later read of a key past its
\* expiry has just missed.
C16_Witness ==
    /\ cacheHits >= 1
    /\ seen.got # <<>>
    /\ seen.got[1].n = seen.ops
    /\ seen.lastSet[seen.got[1].key] # <<>>
    /\ seen.got[1].result = <<>>

\* C17: hits + misses is the number of getCache calls since the last
\* cleanup; a getCache adds one to misses when the key is absent or expired
\* and one to hits otherwise, never to both; getCacheHitRate is
\* 100 * hits / (hits + misses), 0 with no reads, and within 0..100.
C17_CountersAndRate ==
    [][/\ cacheHits' + cacheMisses' = seen'.reads
       /\ (seen'.ops # seen.ops /\ seen'.reads # seen.reads)
          => LET g == seen'.got[1]
                 miss == cache[g.key] = <<>> \/ g.at > cache[g.key][1].expires
             IN /\ (g.result = <<>>) <=> miss
                /\ IF miss
                   THEN cacheMisses' = cacheMisses + 1 /\ cacheHits' = cacheHits
                   ELSE cacheHits' = cacheHits + 1 /\ cacheMisses' = cacheMisses
       /\ LET rate == getCacheHitRate'
          IN /\ rate.num * (cacheHits' + cacheMisses') = 100 * cacheHits' * rate.den
             /\ seen'.reads = 0 => rate.num = 0
             /\ 0 <= rate.num /\ rate.num <= 100 * rate.den]_vars

\* C17 witness: after a hit, the read of an expired key has counted as a
\* miss, and the rate is 50.
C17_Witness ==
    /\ cacheHits = 1
    /\ cacheMisses = 1
    /\ getCacheHitRate.num = 50 * getCacheHitRate.den
    /\ seen.got[1].n = seen.ops
    /\ seen.lastSet[seen.got[1].key] # <<>>
    /\ seen.got[1].result = <<>>

-----------------------------------------------------------------------------
(* lodash debounce, of which throttle is the case leading, trailing and
   maxWait = wait. A closure holds lastArgs, lastCallTime, lastInvokeTime and
   the due time of its timer; each operator returns the closure after it ran
   and the arguments func was invoked with (<<>> when it was not). *)

\* debounce(func, 300): trailing edge only.
DebounceOptions ==
    [wait |-> debounceWait, leading |-> FALSE, trailing |-> TRUE, maxWait |-> <<>>]

\* throttle(func, 100) = debounce(func, 100, {leading, trailing, maxWait: 100}).
ThrottleOptions ==
    [wait |-> throttleWait, leading |-> TRUE, trailing |-> TRUE,
     maxWait |-> <<throttleWait>>]

Min(a, b) == IF a <= b THEN a ELSE b

\* shouldInvoke answering true whenever it is asked.
shouldInvokeAlways(d, o, time) == TRUE

shouldInvoke(d, o, time) ==
    \/ d.lastCallTime = <<>>
    \/ time - d.lastCallTime[1] >= o.wait
    \/ time - d.lastCallTime[1] < 0
    \/ (o.maxWait # <<>> /\ time - d.lastInvokeTime >= o.maxWait[1])

remainingWait(d, o, time) ==
    LET timeWaiting == o.wait - (time - d.lastCallTime[1])
    IN IF o.maxWait # <<>>
       THEN Min(timeWaiting, o.maxWait[1] - (time - d.lastInvokeTime))
       ELSE timeWaiting

invokeFunc(d, time) ==
    [closure |-> [d EXCEPT !.lastArgs = <<>>, !.lastInvokeTime = time],
     invoked |-> d.lastArgs]

notInvoked(d) == [closure |-> d, invoked |-> <<>>]

leadingEdge(d, o, time) ==
    LET armed == [d EXCEPT !.lastInvokeTime = time, !.timer = <<time + o.wait>>]
    IN IF o.leading THEN invokeFunc(armed, time) ELSE notInvoked(armed)

trailingEdge(d, o, time) ==
    LET cleared == [d EXCEPT !.timer = <<>>]
    IN IF o.trailing /\ cleared.lastArgs # <<>>
       THEN invokeFunc(cleared, time)
       ELSE notInvoked([cleared EXCEPT !.lastArgs = <<>>])

\* The timer callback.
timerExpired(d, o, time) ==
    IF shouldInvoke(d, o, time)
    THEN trailingEdge(d, o, time)
    ELSE notInvoked([d EXCEPT !.timer = <<time + remainingWait(d, o, time)>>])

\* A call of the debounced function with `args`.
debouncedCall(d, o, time, args) ==
    LET isInvoking == shouldInvoke(d, o, time)
        called == [d EXCEPT !.lastArgs = <<args>>, !.lastCallTime = <<time>>]
    IN IF isInvoking /\ called.timer = <<>>
       THEN leadingEdge(called, o, time)
       ELSE IF isInvoking /\ o.maxWait # <<>>
            THEN invokeFunc([called EXCEPT !.timer = <<time + o.wait>>], time)
            ELSE IF called.timer = <<>>
                 THEN notInvoked([called EXCEPT !.timer = <<time + o.wait>>])
                 ELSE notInvoked(called)

-----------------------------------------------------------------------------
(* Specification SpecCoalesce: debouncedAutoSave, throttledSync, autoSave *)

\* The (content, fileId) pairs debouncedAutoSave is called with, and the
\* payloads throttledSync is called with.
Edits == {[content |-> "c1", fileId |-> "f1"], [content |-> "c2", fileId |-> "f2"]}
SyncData == {"d1", "d2"}

\* The ms that pass between one event and the next.
Pauses == {0, 50, 299}

InitCoalesce ==
    /\ now = 1000
    /\ ReliabilityIdle
    /\ InitPerformance
    /\ InitApp

\* The due times of the timers that are armed: of the two closures, and of
\* the backoff of every syncToServer that waits.
PendingDue ==
    {debounced.timer[i] : i \in DOMAIN debounced.timer}
    \cup {throttled.timer[i] : i \in DOMAIN throttled.timer}
    \cup {syncs[i].wake : i \in {j \in DOMAIN syncs : syncs[j].pc = "backoff"}}

\* Timers fire when they are due: nothing else runs at or after the due time
\* of an armed timer before its callback has run.
NoTimerDueBy(t) == \A due \in PendingDue : due > t

\* The timer due at `due` is the next to fire.
NextToFire(due) == \A other \in PendingDue : due <= other

\* syncToServer(data) up to its first fetch (lines 142-156): retries = 0.
\* owner is the autoSave that awaits it, 0 for a call from throttledSync.
SyncsAfterCall(data, owner) ==
    Append(syncs, [data |-> data, owner |-> owner, retries |-> 0,
                   pc |-> "fetching", wake |-> 0])

\* History after syncToServer(data) was called at t.
SeenSyncStart(h, data, owner, t) ==
    [h EXCEPT !.syncStarts = Append(@, [at |-> t, data |-> data, owner |-> owner]),
              !.fetches = Append(@, [at |-> t, sync |-> Len(syncs) + 1])]

\* autoSave(content, fileId) up to its first await (lines 88-93), for the
\* arguments in `invoked` (none when the debounced function did not invoke).
SavesAfter(invoked, t) ==
    IF invoked = <<>> THEN saves
    ELSE Append(saves, [content |-> invoked[1].content, fileId |-> invoked[1].fileId,
                        timestamp |-> t, pc |-> "saving"])

SeenAutoSave(h, invoked, t) ==
    IF invoked = <<>> THEN h
    ELSE [h EXCEPT !.autoSaves = Append(@, [at |-> t, args |-> invoked[1]])]

\* debouncedAutoSave(content, fileId), `gap` ms after the last event.
DebouncedAutoSave(args, gap) ==
    /\ Len(seen.edits) < MaxEdits
    /\ NoTimerDueBy(now + gap)
    /\ now' = now + gap
    /\ LET r == debouncedCall(debounced, DebounceOptions, now', args)
       IN /\ debounced' = r.closure
          /\ saves' = SavesAfter(r.invoked, now')
          /\ seen' = SeenAutoSave([seen EXCEPT !.edits = Append(@, [at |-> now', args |-> args])],
                                  r.invoked, now')
    /\ UNCHANGED <<appVars, relVars, cache, cacheHits, cacheMisses, throttled, syncs, fallback>>

\* The timer of debouncedAutoSave fires.
DebounceTimer ==
    /\ debounced.timer # <<>>
    /\ NextToFire(debounced.timer[1])
    /\ now' = debounced.timer[1]
    /\ LET r == timerExpired(debounced, DebounceOptions, now')
       IN /\ debounced' = r.closure
          /\ saves' = SavesAfter(r.invoked, now')
          /\ seen' = SeenAutoSave(seen, r.invoked, now')
    /\ UNCHANGED <<appVars, relVars, cache, cacheHits, cacheMisses, throttled, syncs, fallback>>

\* throttledSync(data), `gap` ms after the last event; an invocation calls
\* syncToServer(data) (line 30).
SyncsAfter(invoked) ==
    IF invoked = <<>> THEN syncs ELSE SyncsAfterCall(invoked[1], 0)

SeenSyncAfter(h, invoked, t) ==
    IF invoked = <<>> THEN h ELSE SeenSyncStart(h, invoked[1], 0, t)

ThrottledSync(data, gap) ==
    /\ Len(seen.pushes) < MaxPushes
    /\ NoTimerDueBy(now + gap)
    /\ now' = now + gap
    /\ LET r == debouncedCall(throttled, ThrottleOptions, now', data)
       IN /\ throttled' = r.closure
          /\ syncs' = SyncsAfter(r.invoked)
          /\ seen' = SeenSyncAfter([seen EXCEPT !.pushes = Append(@, [at |-> now', data |-> data])],
                                   r.invoked, now')
    /\ UNCHANGED <<appVars, relVars, cache, cacheHits, cacheMisses, debounced, saves, fallback>>

\* The timer of throttledSync fires.
ThrottleTimer ==
    /\ throttled.timer # <<>>
    /\ NextToFire(throttled.timer[1])
    /\ now' = throttled.timer[1]
    /\ LET r == timerExpired(throttled, ThrottleOptions, now')
       IN /\ throttled' = r.closure
          /\ syncs' = SyncsAfter(r.invoked)
          /\ seen' = SeenSyncAfter(seen, r.invoked, now')
    /\ UNCHANGED <<appVars, relVars, cache, cacheHits, cacheMisses, debounced, saves, fallback>>

\* handleAutoSaveError(fileId, content) at t: the localStorage entry
\* backup_<fileId> is replaced, unless setItem throws (`kept` false).
FallbackAfter(save, kept, t) ==
    IF kept
    THEN {f \in fallback : f.fileId # save.fileId}
         \cup {[fileId |-> save.fileId, content |-> save.content, timestamp |-> t]}
    ELSE fallback

\* saveToIndexedDB of autoSave i resolves; online, autoSave goes on to
\* syncToServer({fileId, content, timestamp}) (lines 96-98).
SaveToIndexedDBDone(i, online, gap) ==
    /\ i \in DOMAIN saves
    /\ saves[i].pc = "saving"
    /\ NoTimerDueBy(now + gap)
    /\ now' = now + gap
    /\ LET data == [fileId |-> saves[i].fileId, content |-> saves[i].content,
                    timestamp |-> saves[i].timestamp]
       IN IF online
          THEN /\ saves' = [saves EXCEPT ![i].pc = "syncing"]
               /\ syncs' = SyncsAfterCall(data, i)
               /\ seen' = SeenSyncStart(seen, data, i, now')
          ELSE /\ saves' = [saves EXCEPT ![i].pc = "saved"]
               /\ UNCHANGED <<syncs, seen>>
    /\ UNCHANGED <<appVars, relVars, cache, cacheHits, cacheMisses, debounced, throttled, fallback>>

\* saveToIndexedDB of autoSave i rejects: the catch of lines 101-104.
SaveToIndexedDBFailed(i, kept, gap) ==
    /\ i \in DOMAIN saves
    /\ saves[i].pc = "saving"
    /\ NoTimerDueBy(now + gap)
    /\ now' = now + gap
    /\ saves' = [saves EXCEPT ![i].pc = "failed"]
    /\ fallback' = FallbackAfter(saves[i], kept, now')
    /\ UNCHANGED <<appVars, relVars, cache, cacheHits, cacheMisses, debounced, throttled, syncs, seen>>

\* The autoSave calls after syncToServer i settled as `how`.
SavesAfterSync(i, how) ==
    IF syncs[i].owner = 0 THEN saves
    ELSE [saves EXCEPT ![syncs[i].owner].pc = how]

\* The fetch of syncToServer i resolves with response.ok: the call returns.
FetchOk(i, gap) ==
    /\ i \in DOMAIN syncs
    /\ syncs[i].pc = "fetching"
    /\ NoTimerDueBy(now + gap)
    /\ now' = now + gap
    /\ syncs' = [syncs EXCEPT ![i].pc = "resolved"]
    /\ saves' = SavesAfterSync(i, "saved")
    /\ seen' = [seen EXCEPT !.settled = Append(@, [at |-> now', sync |-> i, how |-> "resolved"])]
    /\ UNCHANGED <<appVars, relVars, cache, cacheHits, cacheMisses, debounced, throttled, fallback>>

\* The delay before the next attempt after `retries` failures (line 178).
Backoff(retries) == (2 ^ retries) * 1000

\* Line 173 with > for >=.
GivesUpAfterOneMore(retries) == retries > maxRetries

GivesUp(retries) == retries >= maxRetries

\* The fetch of syncToServer i rejects, or its response is not ok: the
\* catch of lines 171-179.
FetchFailed(i, kept, gap) ==
    /\ i \in DOMAIN syncs
    /\ syncs[i].pc = "fetching"
    /\ NoTimerDueBy(now + gap)
    /\ now' = now + gap
    /\ LET retries == syncs[i].retries + 1
       IN IF GivesUp(retries)
          THEN /\ syncs' = [syncs EXCEPT ![i].retries = retries, ![i].pc = "rejected"]
               /\ saves' = SavesAfterSync(i, "failed")
               /\ fallback' = IF syncs[i].owner = 0 THEN fallback
                               ELSE FallbackAfter(saves[syncs[i].owner], kept, now')
               /\ seen' = [seen EXCEPT !.failures = Append(@, [at |-> now', sync |-> i]),
                                        !.settled = Append(@, [at |-> now', sync |-> i, how |-> "rejected"])]
          ELSE /\ kept
               /\ syncs' = [syncs EXCEPT ![i].retries = retries, ![i].pc = "backoff",
                                          ![i].wake = now' + Backoff(retries)]
               /\ seen' = [seen EXCEPT !.failures = Append(@, [at |-> now', sync |-> i])]
               /\ UNCHANGED <<saves, fallback>>
    /\ UNCHANGED <<appVars, relVars, cache, cacheHits, cacheMisses, debounced, throttled>>

\* The backoff timer of syncToServer i fires: the loop fetches again.
BackoffTimer(i) ==
    /\ i \in DOMAIN syncs
    /\ syncs[i].pc = "backoff"
    /\ NextToFire(syncs[i].wake)
    /\ now' = syncs[i].wake
    /\ syncs' = [syncs EXCEPT ![i].pc = "fetching"]
    /\ seen' = [seen EXCEPT !.fetches = Append(@, [at |-> now', sync |-> i])]
    /\ UNCHANGED <<appVars, relVars, cache, cacheHits, cacheMisses, debounced, throttled, saves, fallback>>

\* The ms a saveToIndexedDB takes beyond the events that happen meanwhile.
Latencies == {0, 50}

\* The fetch of a syncToServer that was started is left in flight here; its
\* outcomes are the subject of SpecSync.
NextCoalesce ==
    \/ \E args \in Edits, gap \in Pauses : DebouncedAutoSave(args, gap)
    \/ DebounceTimer
    \/ \E i \in 1..MaxEdits, online \in BOOLEAN, gap \in Latencies :
          SaveToIndexedDBDone(i, online, gap)
    \/ \E i \in 1..MaxEdits, kept \in BOOLEAN, gap \in Latencies :
          SaveToIndexedDBFailed(i, kept, gap)

SpecCoalesce == InitCoalesce /\ [][NextCoalesce]_vars

\* The debouncedAutoSave calls that end a burst: the last call so far, and
\* every call the next one follows by the quiet period or more.
BurstEnds ==
    {k \in 1..Len(seen.edits) :
        \/ k = Len(seen.edits)
        \/ seen.edits[k + 1].at - seen.edits[k].at >= debounceWait}

\* The bursts that are over: all but the last one while its timer is armed.
BurstsOver ==
    {k \in BurstEnds : k < Len(seen.edits) \/ debounced.timer = <<>>}

C19_SyncStartsSpaced ==
    \A i, j \in DOMAIN seen.syncStarts :
        i < j => seen.syncStarts[j].at - seen.syncStarts[i].at >= throttleWait

-----------------------------------------------------------------------------
(* Specification SpecThrottle: throttledSync alone *)

NextThrottle ==
    \/ \E data \in SyncData, gap \in Pauses : ThrottledSync(data, gap)
    \/ ThrottleTimer

SpecThrottle == InitCoalesce /\ [][NextThrottle]_vars

\* throttledSync never invokes syncToServer more often than it is called,
\* and each invocation carries the payload of a call made by then.
ThrottledCallsMerged ==
    /\ Len(seen.syncStarts) <= Len(seen.pushes)
    /\ \A i \in DOMAIN seen.syncStarts :
          \E k \in DOMAIN seen.pushes :
              /\ seen.pushes[k].at <= seen.syncStarts[i].at
              /\ seen.pushes[k].data = seen.syncStarts[i].data

-----------------------------------------------------------------------------
(* Specification SpecSync: syncToServer and its retries *)

\* syncToServer(data) is called, `gap` ms after the last event.
SyncToServer(data, gap) ==
    /\ Len(syncs) < MaxSyncs
    /\ NoTimerDueBy(now + gap)
    /\ now' = now + gap
    /\ syncs' = SyncsAfterCall(data, 0)
    /\ seen' = SeenSyncStart(seen, data, 0, now')
    /\ UNCHANGED <<appVars, relVars, cache, cacheHits, cacheMisses, debounced, throttled, saves, fallback>>

NextSync ==
    \/ \E data \in SyncData, gap \in Latencies : SyncToServer(data, gap)
    \/ \E i \in 1..MaxSyncs, gap \in Latencies : FetchOk(i, gap)
    \/ \E i \in 1..MaxSyncs, kept \in BOOLEAN, gap \in Latencies : FetchFailed(i, kept, gap)
    \/ \E i \in 1..MaxSyncs : BackoffTimer(i)

SpecSync == InitCoalesce /\ [][NextSync]_vars

\* The fetches, failed fetches and outcomes of syncToServer call i.
FetchesOf(i) == SelectSeq(seen.fetches, LAMBDA f : f.sync = i)
FailuresOf(i) == SelectSeq(seen.failures, LAMBDA f : f.sync = i)
SettledOf(i) == SelectSeq(seen.settled, LAMBDA f : f.sync = i)

\* C20: a syncToServer call fetches at most maxRetries times; it has
\* resolved exactly when its last fetch succeeded, at that moment, after
\* fewer than maxRetries failures; after its k-th failure, k < maxRetries,
\* it waits 2^k seconds and then fetches again; it has rejected exactly when
\* maxRetries fetches failed, at the moment of the last failure.
C20_RetryWithBackoff ==
    \A i \in DOMAIN syncs :
        LET fetches == FetchesOf(i)
            failures == FailuresOf(i)
            settled == SettledOf(i)
        IN /\ Len(fetches) <= maxRetries
           /\ Len(failures) <= Len(fetches)
           /\ Len(settled) <= 1
           /\ \A k \in DOMAIN failures :
                 /\ failures[k].at >= fetches[k].at
                 /\ k < maxRetries =>
                       IF k < Len(fetches)
                       THEN fetches[k + 1].at = failures[k].at + (2 ^ k) * 1000
                       ELSE /\ syncs[i].pc = "backoff"
                            /\ syncs[i].wake = failures[k].at + (2 ^ k) * 1000
                            /\ now <= syncs[i].wake
           /\ syncs[i].pc = "resolved" <=>
                 /\ Len(settled) = 1
                 /\ settled[1].how = "resolved"
           /\ syncs[i].pc = "resolved" =>
                 /\ Len(failures) = Len(fetches) - 1
                 /\ settled[1].at >= fetches[Len(fetches)].at
           /\ syncs[i].pc = "rejected" <=> Len(failures) = maxRetries
           /\ syncs[i].pc = "rejected" =>
                 /\ Len(settled) = 1
                 /\ settled[1].how = "rejected"
                 /\ settled[1].at = failures[maxRetries].at
           /\ syncs[i].pc = "fetching" => Len(failures) = Len(fetches) - 1

\* A call that failed twice and then succeeded on its third attempt, the
\* attempts 2 s and 4 s after the failures.
C20_Witness ==
    \E i \in DOMAIN syncs :
        /\ syncs[i].pc = "resolved"
        /\ Len(FailuresOf(i)) = 2
        /\ Len(FetchesOf(i)) = 3
        /\ FetchesOf(i)[2].at - FailuresOf(i)[1].at = 2000
        /\ FetchesOf(i)[3].at - FailuresOf(i)[2].at = 4000

\* syncToServer call i is awaited inside a try: only autoSave (lines 89-104)
\* awaits it; the callback of throttledSync (line 30) returns the promise to
\* lodash, which drops it.
Awaited(i) == syncs[i].owner # 0

\* C21: a syncToServer call that exhausted its retries was awaited by a
\* caller, and localStorage holds the update it carried.
C21_ExhaustedSyncFallsBack ==
    \A i \in DOMAIN syncs :
        syncs[i].pc = "rejected" =>
            /\ Awaited(i)
            /\ \E f \in fallback :
                  /\ f.fileId = syncs[i].data.fileId
                  /\ f.content = syncs[i].data.content

-----------------------------------------------------------------------------
(* Specification SpecCrashed: recovery in a session that found the flag *)

\* A session whose initializeRecovery found the flag of a crashed session:
\* crashDetected is true (line 38) and the flag is set again (line 44).
InitCrashed ==
    /\ now = MaxSnaps + 1
    /\ database = "backups"
    /\ idb \in RecoverStores
    /\ crashFlag = TRUE
    /\ page = "running"
    /\ recoveryState = [FreshRecoveryState EXCEPT !.crashDetected = TRUE]
    /\ producer = "files"
    /\ backupTimer = <<>>
    /\ timers = {}
    /\ nextHandle = 1
    /\ calls = <<>>
    /\ recovery = <<>>
    /\ InitPerformance
    /\ InitApp
    /\ hist = NoHistory

SpecCrashed == InitCrashed /\ [][NextRecover]_vars

\* isCrashRecoveryAvailable()
isCrashRecoveryAvailable == recoveryState.crashDetected

\* The last recovery returned a payload.
RecoveredPayload ==
    /\ recovery # <<>>
    /\ recovery[1].settled.kind = "resolved"
    /\ recovery[1].settled.value # <<>>

\* C22: a recovery that returns a payload leaves isCrashRecoveryAvailable()
\* false and leaves the backup store as it was.
C22_RecoveryClearsCrashed ==
    [][(\E ok \in BOOLEAN : RecoverFromCrash(ok)) /\ RecoveredPayload'
          => /\ ~isCrashRecoveryAvailable'
             /\ idb' = idb]_vars

\* A recovery that returns a payload leaves the backup store as it was.
RecoveryKeepsStore ==
    [][(\E ok \in BOOLEAN : RecoverFromCrash(ok)) => idb' = idb]_vars

\* Where the steps named `step` stand in the startup of the session.
StepsAt(step) == {i \in DOMAIN hist.startup : hist.startup[i].step = step}

\* C23 as stated: the flag is written before recoverFromCrash is called.
C23_FlagWrittenBeforeRecovery ==
    \A w \in StepsAt("setItem"), r \in StepsAt("recoverFromCrash") : w < r

\* C23: initializeRecovery first reads the flag, and writes it once, after
\* the read; recoverFromCrash is called only when the read found the flag,
\* after the read and before the write, and the flag of the crashed session
\* is still in storage when it is called.
C23_FlagReadThenRecoveryThenWrite ==
    page = "running" =>
        /\ Cardinality(StepsAt("getItem")) = 1
        /\ Cardinality(StepsAt("setItem")) = 1
        /\ \A g \in StepsAt("getItem"), w \in StepsAt("setItem") : g < w
        /\ StepsAt("recoverFromCrash") # {} <=> recoveryState.crashDetected
        /\ \A r \in StepsAt("recoverFromCrash") :
              /\ hist.startup[r].flag
              /\ \A g \in StepsAt("getItem") : g < r /\ hist.startup[g].flag
              /\ \A w \in StepsAt("setItem") : r < w

\* A session that started after a crash and called recoverFromCrash.
C23_Witness ==
    /\ page = "running"
    /\ hist.expectCrash
    /\ recoveryState.crashDetected
    /\ StepsAt("recoverFromCrash") # {}

\* C24: when unsavedChanges is false, every markUnsavedChanges preceded the
\* producer call of a backup that the timer callback completed.
C24_CleanIsNeverStale ==
    ~recoveryState.unsavedChanges => ~hist.uncaptured

\* C25: a session that is running and has not called cleanup() has its
\* crash flag in storage.
C25_RunningSessionHasFlag ==
    page = "running" /\ ~hist.cleaned => crashFlag

-----------------------------------------------------------------------------
(* Specification SpecFiles: the file tree of useFileSystem *)

\* The names createFile and renameFile are called with.
Names == {"lib", "a.ts"}

InitFiles ==
    /\ now = 10
    /\ ReliabilityIdle
    /\ InitPerformance
    /\ InitApp

\* findFileById(id): <<node>>, or <<>> for null.
findFileById(id) ==
    IF \E n \in files : n.id = id
    THEN <<CHOOSE n \in files : n.id = id>>
    ELSE <<>>

\* The node is `id` or lies below it.
RECURSIVE Under(_, _)
Under(n, id) ==
    \/ n.id = id
    \/ /\ n.parent # NoParent
       /\ \E p \in files : p.id = n.parent /\ Under(p, id)

\* The tree once the node(s) `id` and all below are filtered out.
WithoutSubtree(id) == {n \in files : ~Under(n, id)}

\* A renamed node: pathParts[pathParts.length - 1] = newName; the children
\* are spread unchanged.
Renamed(n, newName) ==
    [n EXCEPT !.name = newName, !.path = [@ EXCEPT ![Len(@)] = newName]]

\* createFile(parentId, name, type): the id is the clock; the path is
\* built from the parent found by findFileById; the node is appended to the
\* roots, or to the children of the parent when that is a folder.
CreateFile(parentId, name, type, gap) ==
    /\ trail.fileOps < MaxFileOps
    /\ parentId = NoParent \/ findFileById(parentId) # <<>>
    /\ now' = now + gap
    /\ LET newNode ==
             [id |-> now', name |-> name, type |-> type,
              path |-> IF parentId = NoParent THEN <<name>>
                       ELSE Append(findFileById(parentId)[1].path, name),
              parent |-> parentId]
       IN files' = IF parentId = NoParent
                      \/ findFileById(parentId)[1].type = "folder"
                   THEN files \cup {newNode}
                   ELSE files
    /\ trail' = [trail EXCEPT !.fileOps = @ + 1]
    /\ UNCHANGED <<relVars, perfVars, tabs, activeTabId, armedAt, collab>>

\* renameFile(id, newName)
RenameFile(id, newName) ==
    /\ trail.fileOps < MaxFileOps
    /\ findFileById(id) # <<>>
    /\ files' = {IF n.id = id THEN Renamed(n, newName) ELSE n : n \in files}
    /\ trail' = [trail EXCEPT !.fileOps = @ + 1]
    /\ UNCHANGED <<now, relVars, perfVars, tabs, activeTabId, armedAt, collab>>

\* deleteFile(id)
DeleteFile(id) ==
    /\ trail.fileOps < MaxFileOps
    /\ findFileById(id) # <<>>
    /\ files' = WithoutSubtree(id)
    /\ trail' = [trail EXCEPT !.fileOps = @ + 1]
    /\ UNCHANGED <<now, relVars, perfVars, tabs, activeTabId, armedAt, collab>>

\* The ids the tree can hold.
FileIds == {n.id : n \in initialFiles} \cup (10..(10 + MaxFileOps * MaxTicks))

NextFiles ==
    \/ \E parentId \in FileIds \cup {NoParent}, name \in Names,
          type \in {"file", "folder"}, gap \in 1..MaxTicks :
          CreateFile(parentId, name, type, gap)
    \/ \E id \in FileIds, newName \in Names : RenameFile(id, newName)
    \/ \E id \in FileIds : DeleteFile(id)

SpecFiles == InitFiles /\ [][NextFiles]_vars

\* C30: the path of every node is the path of its parent followed by its
\* name, and the name alone for a root node.
C30_PathsFollowParents ==
    \A n \in files :
        IF n.parent = NoParent
        THEN n.path = <<n.name>>
        ELSE \E p \in files : p.id = n.parent /\ n.path = Append(p.path, n.name)

-----------------------------------------------------------------------------
(* Specification SpecCollab: the collaboration socket and its reconnection *)

InitCollab ==
    /\ now = 1000
    /\ ReliabilityIdle
    /\ InitPerformance
    /\ InitApp

\* The retry timers are taken to fire when they are due.
NoRetryDueBy(t) == \A r \in collab.retries : r.due > t

\* initializeRoom(roomId, user) (lines 55-100): io(...) creates the socket,
\* which starts to connect; isConnected is set at once (line 95).
InitializeRoom ==
    /\ collab.socket = "none"
    /\ collab' = [collab EXCEPT !.socket = "connecting", !.isConnected = TRUE]
    /\ UNCHANGED <<now, relVars, perfVars, files, tabs, activeTabId, armedAt, trail>>

\* The delay of the timer retry() sets (line 238).
RetryDelay(retryCount) == (2 ^ retryCount) * 1000

\* The timers after retry() ran with `retryCount` at t (lines 225-239).
RetriesAfter(retryCount, t) ==
    IF retryCount >= reconnectMaxRetries THEN collab.retries
    ELSE collab.retries
         \cup {[due |-> t + RetryDelay(retryCount), delay |-> RetryDelay(retryCount),
                 retryCount |-> retryCount]}

\* 'connect_error': handleConnectionError() (lines 216-242) declares
\* retryCount = 0 and calls retry() once.
ConnectError(gap) ==
    /\ collab.socket = "connecting"
    /\ trail.errors < MaxErrors
    /\ NoRetryDueBy(now + gap)
    /\ now' = now + gap
    /\ collab' = [collab EXCEPT !.isConnected = FALSE, !.socket = "failed",
                                 !.retries = RetriesAfter(0, now')]
    /\ trail' = [trail EXCEPT !.errors = @ + 1]
    /\ UNCHANGED <<relVars, perfVars, files, tabs, activeTabId, armedAt>>

\* The timer of retry() fires (lines 231-237): retryCount++ in its closure,
\* and socket.connect() when there is a socket. retry() is not called again.
RetryTimer ==
    \E r \in collab.retries :
        /\ \A other \in collab.retries : r.due <= other.due
        /\ now' = r.due
        /\ collab' = [collab EXCEPT !.retries = @ \ {r},
                                     !.socket = IF @ = "failed" THEN "connecting" ELSE @]
        /\ trail' = IF collab.socket = "none" THEN trail
                    ELSE [trail EXCEPT !.attempts = Append(@, [at |-> now', delay |-> r.delay])]
        /\ UNCHANGED <<relVars, perfVars, files, tabs, activeTabId, armedAt>>

\* 'connect' (lines 166-170): the run of connection errors is over.
Connected(gap) ==
    /\ collab.socket = "connecting"
    /\ NoRetryDueBy(now + gap)
    /\ now' = now + gap
    /\ collab' = [collab EXCEPT !.isConnected = TRUE, !.socket = "connected"]
    /\ trail' = [trail EXCEPT !.errors = 0, !.attempts = <<>>]
    /\ UNCHANGED <<relVars, perfVars, files, tabs, activeTabId, armedAt>>

NextCollab ==
    \/ InitializeRoom
    \/ \E gap \in Latencies : ConnectError(gap)
    \/ RetryTimer
    \/ \E gap \in Latencies : Connected(gap)

SpecCollab == InitCollab /\ [][NextCollab]_vars

\* C28: in a run of consecutive connect_error events at most
\* reconnectMaxRetries reconnect attempts are made, the n-th after a delay
\* of 2^(n-1) seconds, and once that many attempts have failed no retry
\* timer is pending.
C28_BoundedReconnect ==
    /\ Len(trail.attempts) <= reconnectMaxRetries
    /\ \A n \in DOMAIN trail.attempts :
          trail.attempts[n].delay = (2 ^ (n - 1)) * 1000
    /\ trail.errors > reconnectMaxRetries => collab.retries = {}

-----------------------------------------------------------------------------
(* Specification SpecApp: the mounted App, its tabs and its backup timer *)

InitAppSpec ==
    /\ now = 1000
    /\ ReliabilityIdle
    /\ InitPerformance
    /\ InitApp

\* The files the explorer is clicked on, and the ms between two events.
OpenableIds == {2, 4}
AppPauses == {0, 20000}

\* const cacheKey = `tab_${file.id}` (line 111)
cacheKey(id) == IF id = 2 THEN "tab_2" ELSE "tab_4"

\* The next time the interval armed at armedAt fires.
BackupDue ==
    armedAt[1] + ((now - armedAt[1]) \div backupInterval + 1) * backupInterval

\* The interval fires when it is due: nothing else runs at or after its due
\* time before its callback has run.
NoBackupDueBy(t) == backupTimer = <<>> \/ BackupDue > t

\* The body of the effect (lines 69-93) at t: startAutoBackup stops and arms
\* the interval, and initCollaboration creates a socket.
AppEffect(t) ==
    /\ timers' = TimersBeforeArm \cup {nextHandle}
    /\ backupTimer' = <<nextHandle>>
    /\ nextHandle' = nextHandle + 1
    /\ armedAt' = <<t>>
    /\ collab' = [collab EXCEPT !.socket = "connecting", !.isConnected = TRUE]
    /\ hist' = [hist EXCEPT !.restarted = @ \/ timers # {}]

\* The cache keeping its entries over cleanup().
CacheKeptByCleanup(c) == c

\* The cache after performanceService.cleanup() (line 209), which the
\* cleanup of the effect calls (lines 95-99).
CacheAfterCleanup(c) == [k \in Keys |-> <<>>]

\* The render after a handler: when files, tabs, activeTabId or user changed,
\* the cleanup of the effect runs (stopAutoBackup, disconnect, cleanup) and
\* then its body; `c`, `hits`, `misses` are the cache and its counters as the
\* handler left them.
Rendered(changed, c, hits, misses, t) ==
    IF changed
    THEN /\ cache' = CacheAfterCleanup(c)
         /\ cacheHits' = 0
         /\ cacheMisses' = 0
         /\ AppEffect(t)
    ELSE /\ cache' = c
         /\ cacheHits' = hits
         /\ cacheMisses' = misses
         /\ UNCHANGED <<timers, backupTimer, nextHandle, armedAt, collab, hist>>

\* The App mounts: the first run of the effect.
Mount ==
    /\ armedAt = <<>>
    /\ AppEffect(now)
    /\ trail' = [trail EXCEPT !.lastTick = <<now>>]
    /\ UNCHANGED <<now, files, tabs, activeTabId, database, idb, crashFlag, page,
                   recoveryState, producer, calls, recovery, perfVars>>

\* The tabs whose path is that of the file (tabs.find, line 115).
TabsWithPath(path) == SelectSeq(tabs, LAMBDA tab : tab.path = path)

\* handleFileSelect(file) for a file node (lines 103-139), `gap` ms after
\* the last event. The history of the cache claims is kept by SetCache and
\* GetCache only.
HandleFileSelect(id, gap) ==
    /\ armedAt # <<>>
    /\ trail.appOps < MaxAppOps
    /\ findFileById(id) # <<>>
    /\ findFileById(id)[1].type = "file"
    /\ NoBackupDueBy(now + gap)
    /\ now' = now + gap
    /\ LET file == findFileById(id)[1]
           key == cacheKey(id)
           found == cache[key] # <<>>
           expired == found /\ Expired(cache[key][1], now')
           cached == IF found /\ ~expired THEN <<cache[key][1].value>> ELSE <<>>
           read == IF expired THEN [cache EXCEPT ![key] = <<>>] ELSE cache
           open == TabsWithPath(file.path)
           existingTab == IF cached # <<>> THEN cached
                          ELSE IF open # <<>> THEN <<open[1]>> ELSE <<>>
           newTab == [id |-> file.id, path |-> file.path]
           stored == IF existingTab # <<>> THEN existingTab[1] ELSE newTab
           written == IF cached # <<>> THEN read
                      ELSE [read EXCEPT ![key] =
                              <<[value |-> stored, expires |-> now' + defaultTtl]>>]
       IN /\ tabs' = IF existingTab # <<>> THEN tabs ELSE Append(tabs, newTab)
          /\ activeTabId' = stored.id
          /\ Rendered(tabs' # tabs \/ activeTabId' # activeTabId, written,
                      HitsAfter(found, expired), MissesAfter(found, expired), now')
    /\ trail' = [trail EXCEPT !.appOps = @ + 1]
    /\ UNCHANGED <<files, database, idb, crashFlag, page, recoveryState, producer,
                   calls, recovery, debounced, throttled, saves, syncs, fallback, seen>>

\* handleTabClose(tabId) for an open tab (lines 141-154), `gap` ms after
\* the last event: setTabs always hands React a new array.
HandleTabClose(tabId, gap) ==
    /\ armedAt # <<>>
    /\ trail.appOps < MaxAppOps
    /\ \E i \in DOMAIN tabs : tabs[i].id = tabId
    /\ NoBackupDueBy(now + gap)
    /\ now' = now + gap
    /\ LET newTabs == SelectSeq(tabs, LAMBDA tab : tab.id # tabId)
       IN /\ tabs' = newTabs
          /\ activeTabId' =
                IF tabId # activeTabId THEN activeTabId
                ELSE IF Len(newTabs) > 0 THEN newTabs[Len(newTabs)].id
                     ELSE NoTab
    /\ Rendered(TRUE, cache, cacheHits, cacheMisses, now')
    /\ trail' = [trail EXCEPT !.appOps = @ + 1,
                              !.closedCached =
                                  IF cache[cacheKey(tabId)] # <<>>
                                  THEN @ \cup {tabId} ELSE @]
    /\ UNCHANGED <<files, database, idb, crashFlag, page, recoveryState, producer,
                   calls, recovery, debounced, throttled, saves, syncs, fallback, seen>>

\* The interval of the effect fires (reliabilityService.ts 56-59): the
\* callback reads the App state and calls createBackup, which runs up to
\* its first await (lines 78-84).
BackupIntervalTick ==
    /\ backupTimer # <<>>
    /\ hist.begun < MaxCalls
    /\ now' = BackupDue
    /\ calls' = [c \in DOMAIN calls |-> [calls[c] EXCEPT !.overlap = TRUE]]
                 @@ ((hist.begun + 1) :>
                       [pc |-> "storing", caller |-> "timer",
                        backup |-> Snapshot(now', now', recoveryState.backupCount + 1,
                                            TimerCallbackData(now')),
                        doomed |-> <<>>, next |-> 1,
                        overlap |-> DOMAIN calls # {}])
    /\ hist' = [hist EXCEPT !.begun = @ + 1,
                            !.overlapped = @ \/ DOMAIN calls # {},
                            !.ticks = @ + 1]
    /\ trail' = [trail EXCEPT !.lastTick = <<now'>>]
    /\ UNCHANGED <<files, tabs, activeTabId, armedAt, collab, perfVars, database,
                   producer, idb, crashFlag, page, recoveryState, backupTimer, timers,
                   nextHandle, recovery>>

\* The createBackup a tick calls is left in flight here; how it goes on is
\* the subject of SpecTick.
NextApp ==
    \/ Mount
    \/ \E id \in OpenableIds, gap \in AppPauses : HandleFileSelect(id, gap)
    \/ \E tabId \in OpenableIds, gap \in AppPauses : HandleTabClose(tabId, gap)
    \/ BackupIntervalTick

SpecApp == InitAppSpec /\ [][NextApp]_vars

\* C26: while the App is mounted, no more than backupInterval ms pass
\* without the backup interval firing.
C26_TickEveryInterval ==
    trail.lastTick # <<>> => now - trail.lastTick[1] <= backupInterval

\* C29: activeTabId is '' or the id of an open tab, and no two open tabs
\* have the same path.
C29_TabsConsistent ==
    /\ activeTabId = NoTab \/ \E i \in DOMAIN tabs : tabs[i].id = activeTabId
    /\ \A i, j \in DOMAIN tabs : tabs[i].path = tabs[j].path => i = j

\* A file is selected again after its tab was closed while the cache held
\* an entry for it.
C29_Witness ==
    \E i \in DOMAIN tabs : tabs[i].id \in trail.closedCached /\ tabs[i].id = activeTabId

-----------------------------------------------------------------------------
(* Specification SpecEdit: the editor's onChange and handleCodeChange *)

\* The values the editor reports, and the function handleCodeChange binds
\* as the first argument of debouncedAutoSave (App.tsx 158-170).
EditorValues == {"v1", "v2"}
ChangeHandler == "changeHandler"

\* The argument list debouncedAutoSave receives from
\* handleCodeChange(value, tabId): bind(null, handler) puts the handler
\* before the arguments of the call.
BoundArguments(value, tabId) == <<ChangeHandler, value, tabId>>

\* The parameters (content, fileId) of the debounced function take the
\* first two arguments (performanceService.ts 24).
AutoSaveParameters(arguments) == [content |-> arguments[1], fileId |-> arguments[2]]

\* The file the editor shows is clicked in the explorer, once.
OpenTab(id) == tabs = <<>> /\ HandleFileSelect(id, 0)

\* The editor reports `value` (App.tsx 355-360), `gap` ms after the last
\* event: the CodeEditor is rendered for the active tab only. Nothing calls
\* the bound handler, so the App and the reliability service stay as they are.
HandleCodeChange(value, gap) ==
    /\ \E i \in DOMAIN tabs : tabs[i].id = activeTabId
    /\ DebouncedAutoSave(AutoSaveParameters(BoundArguments(value, activeTabId)), gap)

NextEdit ==
    \/ Mount
    \/ \E id \in OpenableIds : OpenTab(id)
    \/ \E value \in EditorValues, gap \in Pauses : HandleCodeChange(value, gap)
    \/ DebounceTimer
    \/ \E i \in 1..MaxEdits, online \in BOOLEAN, gap \in Latencies :
          SaveToIndexedDBDone(i, online, gap)
    \/ \E i \in 1..MaxEdits, kept \in BOOLEAN, gap \in Latencies :
          SaveToIndexedDBFailed(i, kept, gap)

SpecEdit == InitAppSpec /\ [][NextEdit]_vars

\* C27: every autoSave that ran got an editor value as content, and the
\* change handler ran for it, so that the reliability service knows of
\* unsaved changes.
C27_EditSavedAndHandled ==
    \A k \in DOMAIN seen.autoSaves :
        /\ seen.autoSaves[k].args.content \in EditorValues
        /\ recoveryState.unsavedChanges

====
